---- MODULE Spec2Model ----
(***************************************************************************)
(* InkyPi task_calendar plugin: the weekly-grid layout engine              *)
(* (ui/layout.py, ui/renderer.py), the source adapters                     *)
(* (services/ticktick.py, services/google_calendar.py) and the render      *)
(* entry point (task_calendar.py).                                         *)
(*                                                                         *)
(* Time.  An instant is an integer count of minutes; day 0 is a Sunday.    *)
(* A timezone is a fixed offset in minutes from UTC (daylight saving is    *)
(* not modelled).  A timezone-aware datetime of the program is modelled by *)
(* its wall-clock minute count in its own zone (fields start, end) beside  *)
(* the zone's offset (field tz); the instant it denotes is wall - tz.      *)
(* A naive datetime (datetime.now()) is the wall clock of the system zone. *)
(***************************************************************************)
EXTENDS Integers, Sequences, FiniteSets, TLC

VARIABLES
    now,            \* the clock: the current instant (UTC minutes)
    sys_tz,         \* offset of the ambient system timezone (datetime.now())
    items,          \* the list handed to CalendarRenderer.draw_calendar_items
    items_by_day,   \* its seven columns, after the per-day sort
    placements,     \* per column, what draw_day_items painted, in paint order
    rendered,       \* draw_calendar_items has run on `items`
    day_width,      \* the column width handed to draw_calendar_items
    task_font,      \* CalendarRenderer.task_font is loaded (None otherwise)
    provider,       \* what the provider answers to the adapter call under study
    device_tz,      \* offset of the configured timezone (device_config "timezone")
    pc,             \* where TaskCalendar.generate_image stands
    tasks,          \* what TickTick.get_tasks returned
    events,         \* what GoogleCalendar.get_events returned
    tasks_status,   \* "pending", "ok" or "failed": the call of get_tasks
    events_status,  \* "pending", "ok" or "failed": the call of get_events
    tt_week,        \* the week window get_tasks computed (none: <<>>)
    gc_week,        \* the week window get_events computed (none: <<>>)
    header_week,    \* the week window the day headers were drawn for (none: <<>>)
    service,        \* GoogleCalendar.service is built and cached
    raised,         \* number of CalendarErrors raised to the caller
    image,          \* "none" or "returned": the image handed to the caller
    saved,          \* the image file has been written
    ticks,          \* how often the clock has advanced
    fetches,        \* per calendar, the calls of _fetch_calendar_events made
    token_file,     \* the token file of GoogleCalendarAuth
    credential,     \* the credential last obtained (none: <<>>)
    refreshes,      \* calls of credentials.refresh made
    auth_status,    \* "pending", "returned" or "raised": get_valid_credentials
    calls           \* calls of get_events since a token was last written

layout_vars == <<items, items_by_day, placements, rendered, day_width, task_font>>

image_vars == <<device_tz, pc, tasks, events, tasks_status, events_status,
                tt_week, gc_week, header_week, service, raised, image, saved,
                ticks, fetches>>

auth_vars == <<token_file, credential, refreshes, auth_status, calls>>

vars == <<now, sys_tz, provider, layout_vars, image_vars, auth_vars>>

-----------------------------------------------------------------------------
(* Program constants (ui/styles.py).                                       *)
HEADER_HEIGHT == 80
TASK_HEIGHT == 40
PADDING == 8
TASK_PADDING == 4
LINE_HEIGHT == 24
DEFAULT_TASK_FONT_SIZE == 12
MAX_TITLE_LENGTH == 25
MAX_TIMED_TITLE_LENGTH == 20

MinutesPerDay == 24 * 60

\* display_height = getattr(device_config, 'height', 800) (task_calendar.py):
\* the height of the canvas.
display_height == 800

-----------------------------------------------------------------------------
(* datetime arithmetic                                                     *)

\* datetime.date(): the calendar day of a wall-clock minute count.
Date(dt) == dt \div MinutesPerDay

\* the time of day of a wall-clock minute count.
TimeOfDay(dt) == dt % MinutesPerDay

\* date.weekday(): Monday = 0 ... Sunday = 6 (day 0 is a Sunday).
Weekday(day) == (day + 6) % 7

\* dt + timedelta(days=n): the wall clock moves by whole days.
PlusDays(dt, n) == dt + n * MinutesPerDay

\* int(x) for the quotient a / b, b > 0: Python truncates toward zero.
TruncDiv(a, b) == IF a >= 0 THEN a \div b ELSE -((-a) \div b)

\* datetime.now() without a zone: the wall clock of the system timezone.
NaiveNow == now + sys_tz

-----------------------------------------------------------------------------
(* ui/layout.py                                                            *)

\* today = datetime.now()
\* days_to_sunday = (today.weekday() + 1) % 7
\* return today - timedelta(days=days_to_sunday)     (the time of day is kept)
calculate_week_start ==
    LET today == NaiveNow
        days_to_sunday == (Weekday(Date(today)) + 1) % 7
    IN  PlusDays(today, -days_to_sunday)

\* A day index taken modulo the week (a weekday-based index).
DayIndexModWeek(date, week_start) == (Date(date) - Date(week_start)) % 7

\* (date.date() - week_start.date()).days
calculate_day_index(date, week_start) == Date(date) - Date(week_start)

-----------------------------------------------------------------------------
(* ui/renderer.py: CalendarRenderer                                        *)

\* An item: a CalendarEvent or a TickTickTask.  completed and priority are the
\* fields of a TickTickTask (source 'ticktick'), calendar_name the field of a
\* CalendarEvent (source 'google', default 'primary'); Item gives an
\* uncompleted task of priority 0, or an event of the primary calendar.
Item(title, start, end, tz, is_all_day, source) ==
    [title |-> title, start |-> start, end |-> end, tz |-> tz,
     is_all_day |-> is_all_day, source |-> source,
     completed |-> FALSE, priority |-> 0, calendar_name |-> "primary"]

\* TickTickTask(..., completed=completed, priority=priority)
TickTickTask(title, start, end, tz, is_all_day, completed, priority) ==
    [Item(title, start, end, tz, is_all_day, "ticktick")
        EXCEPT !.completed = completed, !.priority = priority]

\* CalendarEvent(..., calendar_name=calendar_name)
CalendarEvent(title, start, end, tz, is_all_day, calendar_name) ==
    [Item(title, start, end, tz, is_all_day, "google")
        EXCEPT !.calendar_name = calendar_name]

\* The instant an aware datetime of zone tz denotes: what <, <= and the sort
\* key compare.
Instant(dt, tz) == dt - tz

Columns == 0..6

EmptyColumns == [d \in Columns |-> <<>>]

\* if 0 <= day_idx < 7
InGrid(day_idx) == 0 <= day_idx /\ day_idx < 7

\* A bucketing loop that looks at the start day alone (as
\* TaskCalendar._draw_calendar_items does).
LoopContinuesStartOnly(item, current_date, week_start) ==
    current_date = item.start

\* while current_date <= item.end and
\*       current_date.date() <= (week_start + timedelta(days=6)).date()
LoopContinues(item, current_date, week_start) ==
    /\ Instant(current_date, item.tz) <= Instant(item.end, item.tz)
    /\ Date(current_date) <= Date(PlusDays(week_start, 6))

\* A loop that advances by half a day.
NextDateHalfDay(current_date) == current_date + 12 * 60

\* current_date += timedelta(days=1)
NextDate(current_date) == PlusDays(current_date, 1)

\* The while loop of draw_calendar_items for one item, from current_date on.
RECURSIVE BucketItem(_, _, _, _)
BucketItem(item, current_date, week_start, cols) ==
    IF LoopContinues(item, current_date, week_start)
    THEN LET day_idx == calculate_day_index(current_date, week_start)
             appended == IF InGrid(day_idx)
                         THEN [cols EXCEPT ![day_idx] = Append(@, item)]
                         ELSE cols
         IN  BucketItem(item, NextDate(current_date), week_start, appended)
    ELSE cols

\* for item in items: ... (items in input order)
RECURSIVE BucketAll(_, _, _)
BucketAll(its, week_start, cols) ==
    IF its = <<>> THEN cols
    ELSE BucketAll(Tail(its), week_start,
                   BucketItem(Head(its), Head(its).start, week_start, cols))

\* key=lambda x: (not x.is_all_day, x.start): tuple order, False < True.
KeyLess(a, b) ==
    LET ka == IF a.is_all_day THEN 0 ELSE 1
        kb == IF b.is_all_day THEN 0 ELSE 1
    IN  \/ ka < kb
        \/ ka = kb /\ Instant(a.start, a.tz) < Instant(b.start, b.tz)

\* An insertion that puts x before the elements equal to it: an unstable sort.
RECURSIVE SortedInsertBeforeEqual(_, _)
SortedInsertBeforeEqual(x, s) ==
    IF s = <<>> THEN <<x>>
    ELSE IF ~KeyLess(Head(s), x) THEN <<x>> \o s
    ELSE <<Head(s)>> \o SortedInsertBeforeEqual(x, Tail(s))

\* x put into the sorted s behind every element that is not greater: with the
\* elements taken in input order this is list.sort, which is stable.
RECURSIVE SortedInsert(_, _)
SortedInsert(x, s) ==
    IF s = <<>> THEN <<x>>
    ELSE IF KeyLess(x, Head(s)) THEN <<x>> \o s
    ELSE <<Head(s)>> \o SortedInsert(x, Tail(s))

RECURSIVE SortFrom(_, _)
SortFrom(s, acc) ==
    IF s = <<>> THEN acc ELSE SortFrom(Tail(s), SortedInsert(Head(s), acc))

\* day_items.sort(key=...)
SortDay(day_items) == SortFrom(day_items, <<>>)

\* The height rule of ui/layout.py (rounding up to whole half hours, no
\* collapse of long items), which the renderer imports but does not use.
LayoutItemHeight(item, base_height) ==
    IF item.is_all_day THEN base_height
    ELSE LET duration_minutes == Instant(item.end, item.tz) - Instant(item.start, item.tz)
             blocks == (duration_minutes + 29) \div 30
         IN  base_height * (IF blocks > 1 THEN blocks ELSE 1)

\* The height rule with the three-hour test made strict.
StrictItemHeight(item, base_height) ==
    IF item.is_all_day THEN base_height
    ELSE LET duration_minutes == Instant(item.end, item.tz) - Instant(item.start, item.tz)
         IN  IF duration_minutes < 180
             THEN base_height * (TruncDiv(duration_minutes, 30) + 1)
             ELSE base_height

\* CalendarRenderer.calculate_item_height.  duration_hours <= 3 is
\* duration_minutes <= 180, and int(duration_hours * 2) is the quotient of the
\* minutes by 30 truncated toward zero.
calculate_item_height(item, base_height) ==
    IF item.is_all_day THEN base_height
    ELSE LET duration_minutes == Instant(item.end, item.tz) - Instant(item.start, item.tz)
         IN  IF duration_minutes <= 180
             THEN base_height * (TruncDiv(duration_minutes, 30) + 1)
             ELSE base_height

\* The words of a title, as the lengths of its words (single spaces between
\* them).  "L" stands for a title like "aaaaaaa bbbbbbbbb ccccccc", "S" for
\* "sssss ssssss", "X" for three words of nine letters; the other titles of
\* the model are one short word.
TitleWords(title) ==
    CASE title = "L" -> <<7, 9, 7>>
      [] title = "S" -> <<5, 6>>
      [] title = "X" -> <<9, 9, 9>>
      [] OTHER -> <<1>>

\* title[:n]: the first n characters, as word lengths (a space left at the
\* end makes no word).
RECURSIVE TakeChars(_, _)
TakeChars(words, n) ==
    IF words = <<>> \/ n <= 0 THEN <<>>
    ELSE IF Head(words) >= n THEN <<n>>
    ELSE <<Head(words)>> \o TakeChars(Tail(words), n - Head(words) - 1)

\* item.start.strftime('%-I:%M %p'), e.g. "9:00 AM" or "10:00 PM": two words.
TimeWords(start) ==
    LET hour == TimeOfDay(start) \div 60
        hour12 == ((hour + 11) % 12) + 1
    IN  <<(IF hour12 >= 10 THEN 2 ELSE 1) + 3, 2>>

\* The title draw_item is given: item.title[:MAX_TITLE_LENGTH] for an all-day
\* item, f"{time_str} {item.title[:MAX_TIMED_TITLE_LENGTH]}" for a timed one.
DrawnTitle(item) ==
    IF item.is_all_day THEN TakeChars(TitleWords(item.title), MAX_TITLE_LENGTH)
    ELSE TimeWords(item.start)
            \o TakeChars(TitleWords(item.title), MAX_TIMED_TITLE_LENGTH)

\* chars_per_line = int(text_width / (DEFAULT_TASK_FONT_SIZE * 0.6))
chars_per_line ==
    LET text_width == day_width - (2 * PADDING + 2 * TASK_PADDING)
    IN  TruncDiv(text_width * 10, DEFAULT_TASK_FONT_SIZE * 6)

\* len(textwrap.wrap(title, width)), width > 0: the lines are filled greedily,
\* cur is the length of the line being filled; a word longer than a line is
\* broken at the end of the line.
RECURSIVE WrapLines(_, _, _)
WrapLines(words, width, cur) ==
    IF words = <<>> THEN (IF cur > 0 THEN 1 ELSE 0)
    ELSE LET w == Head(words)
             space_left == IF cur = 0 THEN width ELSE width - (cur + 1)
         IN  IF (IF cur = 0 THEN w ELSE cur + 1 + w) <= width
             THEN WrapLines(Tail(words), width,
                            IF cur = 0 THEN w ELSE cur + 1 + w)
             ELSE IF w > width /\ space_left > 0
             THEN 1 + WrapLines(<<w - space_left>> \o Tail(words), width, 0)
             ELSE 1 + WrapLines(words, width, 0)

\* len(wrapped_text) in draw_item: without a font the title is one line.
LineCount(item) ==
    IF task_font THEN WrapLines(DrawnTitle(item), chars_per_line, 0) ELSE 1

\* required_height = max(height, len(wrapped_text) * LINE_HEIGHT): the height
\* of the rectangle draw_item paints.
required_height(item, height) ==
    IF LineCount(item) * LINE_HEIGHT > height
    THEN LineCount(item) * LINE_HEIGHT
    ELSE height

\* TickTickTask.PRIORITY_COLORS
PRIORITY_COLORS == (0 :> "blue") @@ (1 :> "black") @@ (2 :> "orange") @@ (3 :> "pink")

\* CalendarEvent.CALENDAR_COLORS
CALENDAR_COLORS ==
    [name \in {"primary", "other_google", "events_available", "holidays",
               "birthdays", "partiful", "work"} |->
        CASE name = "primary" -> "red"
          [] name = "other_google" -> "blue"
          [] name = "events_available" -> "purple"
          [] name = "holidays" -> "green"
          [] name = "birthdays" -> "orange"
          [] name = "partiful" -> "green"
          [] name = "work" -> "yellow"]

\* dict.get(key, default)
Get(table, key, default) == IF key \in DOMAIN table THEN table[key] ELSE default

\* The color property of the two dataclasses.
color(item) ==
    IF item.source = "ticktick"
    THEN Get(PRIORITY_COLORS, item.priority, "blue")
    ELSE Get(CALENDAR_COLORS, item.calendar_name, "blue")

\* A get_item_color that keeps the priority color of a completed task.
GetItemColorOfPriority(item) == color(item)

\* get_item_color: isinstance(item, TickTickTask) is source = 'ticktick'.
get_item_color(item) ==
    IF item.source = "ticktick"
    THEN (IF item.completed THEN "gray" ELSE color(item))
    ELSE color(item)

\* str.lower() on the color names in use.
Lower(s) ==
    CASE s \in {"Yellow", "YELLOW"} -> "yellow"
      [] s \in {"Pink", "PINK"} -> "pink"
      [] OTHER -> s

\* A get_font_color that counts pink and orange as light backgrounds too.
GetFontColorPastel(background_color) ==
    IF Lower(background_color) \in {"yellow", "pink", "orange"}
    THEN "black" ELSE "white"

\* get_font_color: light_colors = {'yellow'}
get_font_color(background_color) ==
    IF Lower(background_color) \in {"yellow"} THEN "black" ELSE "white"

\* A placement: the item, where its box starts, the height stacking advances
\* by, the height of the box that is painted, the color get_item_color gives
\* the box and the color draw_item gives the text.
Placement(item, y, height) ==
    [item |-> item, y_offset |-> y, pixel_height |-> height,
     box_height |-> required_height(item, height),
     fill_color |-> get_item_color(item),
     text_color |-> get_font_color(get_item_color(item))]

\* The height draw_day_items gives an item: all-day items are drawn with
\* draw_item's default (TASK_HEIGHT), timed ones with calculate_item_height.
DrawnHeight(item) ==
    IF item.is_all_day THEN TASK_HEIGHT
    ELSE calculate_item_height(item, TASK_HEIGHT)

\* A stacking that leaves no gutter between the items.
RECURSIVE StackNoGutter(_, _)
StackNoGutter(seq, y) ==
    IF seq = <<>> THEN <<>>
    ELSE LET h == DrawnHeight(Head(seq))
         IN  <<Placement(Head(seq), y, h)>> \o StackNoGutter(Tail(seq), y + h)

\* y += height + PADDING, item after item.
RECURSIVE Stack(_, _)
Stack(seq, y) ==
    IF seq = <<>> THEN <<>>
    ELSE LET h == DrawnHeight(Head(seq))
         IN  <<Placement(Head(seq), y, h)>> \o Stack(Tail(seq), y + h + PADDING)

\* A draw_day_items that paints a placeholder box in a column without items.
DrawDayItemsPlaceholder(day_items) ==
    IF day_items = <<>>
    THEN <<Placement(Item("-", calculate_week_start, calculate_week_start,
                          sys_tz, TRUE, "google"),
                     HEADER_HEIGHT + PADDING, TASK_HEIGHT)>>
    ELSE Stack(SelectSeq(day_items, LAMBDA i : i.is_all_day)
                  \o SelectSeq(day_items, LAMBDA i : ~i.is_all_day),
               HEADER_HEIGHT + PADDING)

\* draw_day_items paints the all-day items, then the timed ones.
DrawOrder(day_items) ==
    SelectSeq(day_items, LAMBDA i : i.is_all_day)
        \o SelectSeq(day_items, LAMBDA i : ~i.is_all_day)

draw_day_items(day_items) == Stack(DrawOrder(day_items), HEADER_HEIGHT + PADDING)

\* The columns draw_calendar_items builds from its input at week_start.
SortedColumns(its, week_start) ==
    LET cols == BucketAll(its, week_start, EmptyColumns)
    IN  [d \in Columns |-> SortDay(cols[d])]

-----------------------------------------------------------------------------
(* services/ticktick.py: the TickTick adapter                              *)

\* A date of a provider record: absent, malformed, or a date-time string
\* that gives a wall clock and the offset of its zone.
NoDate == [kind |-> "none"]
BadDate == [kind |-> "bad"]
DateTimeStr(wall, off) == [kind |-> "dateTime", wall |-> wall, off |-> off]

\* datetime.strptime(s, DATE_FORMAT): the instant the string denotes.
ParseInstant(d) == d.wall - d.off

\* dt.astimezone(tz): the wall clock of the instant in the zone of offset tz.
AsTimezone(instant, tz) == instant + tz

\* datetime.now(device_tz)
DeviceNow == AsTimezone(now, device_tz)

\* A week window: the clock reading it was computed from, its start and end.
WeekWindow(today, week_start, week_end) ==
    [today |-> today, start |-> week_start, end |-> week_end]

\* A week start taken from the Monday-based index without the shift to
\* Sunday = 0.
TickTickWeekNoShift ==
    LET today == DeviceNow
        week_start == PlusDays(today, -Weekday(Date(today)))
    IN  WeekWindow(today, week_start, PlusDays(week_start, 6))

\* get_tasks: days_since_sunday = (now.weekday() + 1) % 7
\*            week_start = now - timedelta(days=days_since_sunday)
\*            week_end = week_start + timedelta(days=6)
TickTickWeek ==
    LET today == DeviceNow
        days_since_sunday == (Weekday(Date(today)) + 1) % 7
        week_start == PlusDays(today, -days_since_sunday)
    IN  WeekWindow(today, week_start, PlusDays(week_start, 6))

\* A record of the provider: title (<<>> when the key is missing), startDate,
\* dueDate, isAllDay, and status and priority (<<>> when the key is missing:
\* RawTask leaves both out).
RawTask(title, startDate, dueDate, isAllDay) ==
    [title |-> title, startDate |-> startDate, dueDate |-> dueDate,
     isAllDay |-> isAllDay, status |-> <<>>, priority |-> <<>>]

\* task.get(key, 0)
GetOrZero(field) == IF field = <<>> THEN 0 ELSE field[1]

\* task.get('startDate') or task.get('dueDate')
FirstDate(a, b) == IF a.kind # "none" THEN a ELSE b

\* _process_single_task: <<>> is None (the task is skipped), and so is a
\* KeyError on task['title'], which _organize_tasks_for_calendar catches.
process_single_task(task, week) ==
    IF task.startDate.kind = "none" /\ task.dueDate.kind = "none" THEN <<>>
    ELSE LET start_str == FirstDate(task.startDate, task.dueDate)
             end_str == FirstDate(task.dueDate, task.startDate)
         IN  IF start_str.kind = "bad" \/ end_str.kind = "bad" THEN <<>>
             ELSE LET start_dt == AsTimezone(ParseInstant(start_str), device_tz)
                      end_dt == AsTimezone(ParseInstant(end_str), device_tz)
                  IN  IF \/ Date(end_dt) < Date(week.start)
                         \/ Date(start_dt) > Date(week.end)
                      THEN <<>>
                      ELSE IF task.title = <<>> THEN <<>>
                      ELSE <<TickTickTask(task.title[1], start_dt, end_dt,
                                          device_tz, task.isAllDay,
                                          GetOrZero(task.status) = 2,
                                          GetOrZero(task.priority))>>

\* _organize_tasks_for_calendar: the processed tasks, in the provider's order.
RECURSIVE organize_tasks_for_calendar(_, _)
organize_tasks_for_calendar(raw, week) ==
    IF raw = <<>> THEN <<>>
    ELSE process_single_task(Head(raw), week)
            \o organize_tasks_for_calendar(Tail(raw), week)

\* What the TickTick API answers to one call of get_tasks.  failure: "none",
\* or why get_tasks has no task list ("no_token": no access token configured,
\* "invalid_token": _test_token fails, "request_failed": the request raises,
\* "bad_format": the response has no 'tasks'); tasks: data['tasks'].
TickTickAnswer(failure, raw) == [source |-> "ticktick", failure |-> failure, tasks |-> raw]

\* get_tasks: whether it raises RuntimeError, the tasks it returns, and the
\* week window it computed (none, <<>>, when it raises before line 62).
get_tasks(answer) ==
    IF answer.failure \in {"no_token", "invalid_token"}
    THEN [failed |-> TRUE, tasks |-> <<>>, week |-> <<>>]
    ELSE IF answer.failure # "none"
    THEN [failed |-> TRUE, tasks |-> <<>>, week |-> <<TickTickWeek>>]
    ELSE [failed |-> FALSE,
          tasks |-> organize_tasks_for_calendar(answer.tasks, TickTickWeek),
          week |-> <<TickTickWeek>>]

-----------------------------------------------------------------------------
(* services/google_calendar.py: the Google Calendar adapter                *)

\* est = pytz.timezone('US/Eastern'), at its standard offset.
EasternOffset == -300

\* The date of an all-day event of the provider.
DateStr(day) == [kind |-> "date", day |-> day]

\* An event of the provider: summary (<<>> when the key is missing, as for an
\* event without a title), start and end.
RawEvent(summary, start, end) == [summary |-> summary, start |-> start, end |-> end]

\* _format_event runs through on this event: event['summary'] exists and both
\* date strings parse (a KeyError, TypeError or ValueError otherwise).
EventWellFormed(event) ==
    /\ event.summary # <<>>
    /\ event.start.kind \in {"dateTime", "date"}
    /\ event.end.kind \in {"dateTime", "date"}

\* _parse_event_datetime: the instant, and whether the string had no time.
parse_event_datetime(d) ==
    IF d.kind = "dateTime"
    THEN [instant |-> ParseInstant(d), is_all_day |-> FALSE]
    ELSE [instant |-> d.day * MinutesPerDay, is_all_day |-> TRUE]

\* _format_event: both ends converted to US/Eastern.
format_event(event, calendar_name) ==
    LET s == parse_event_datetime(event.start)
        e == parse_event_datetime(event.end)
    IN  CalendarEvent(event.summary[1], AsTimezone(s.instant, EasternOffset),
                      AsTimezone(e.instant, EasternOffset), EasternOffset,
                      s.is_all_day, calendar_name)

\* time_min = week_start.astimezone(pytz.UTC).isoformat()
\* time_max = week_end.astimezone(pytz.UTC).isoformat()
\* the range get_events asks the provider for, as instants.
RequestedRange(week) ==
    [time_min |-> Instant(week.start, device_tz),
     time_max |-> Instant(week.end, device_tz)]

\* get_events: days_since_sunday = (now.weekday() + 1) % 7
\*             week_start = now - timedelta(days=days_since_sunday)
\*             week_end = week_start + timedelta(days=6)
GoogleWeek ==
    LET today == DeviceNow
        days_since_sunday == (Weekday(Date(today)) + 1) % 7
        week_start == PlusDays(today, -days_since_sunday)
    IN  WeekWindow(today, week_start, PlusDays(week_start, 6))

\* self._calendar_ids, in the order of the dict: 'primary' first.
CalendarNames == <<"primary", "work">>

\* What fetching one calendar meets.  first: the first call of
\* _fetch_calendar_events returns ("ok"), fails with an authentication
\* error ("auth_error") or fails otherwise ("error"); after an authentication
\* error, reinit_ok: _initialize_service(force_refresh=True) succeeds, and
\* retry_ok: the second call of _fetch_calendar_events succeeds.
CalendarRun(first, reinit_ok, retry_ok, payload) ==
    [first |-> first, reinit_ok |-> reinit_ok, retry_ok |-> retry_ok,
     payload |-> payload]

\* [self._format_event(event, calendar_name) for event in events]
FormatAll(payload, calendar_name) ==
    [i \in DOMAIN payload |-> format_event(payload[i], calendar_name)]

\* _fetch_calendar_events returns: the request went through and every event of
\* the answer was formatted (the list comprehension raises on the first event
\* that is not well formed, and the exception leaves _fetch_calendar_events).
FetchReturns(request_ok, payload) ==
    request_ok /\ \A i \in DOMAIN payload : EventWellFormed(payload[i])

\* An _handle_auth_error that gives the calendar a second retry when the
\* first one fails.
HandleAuthErrorRetryTwice(r, calendar_name) ==
    IF ~r.reinit_ok
    THEN [raised |-> TRUE, events |-> <<>>, service |-> FALSE, fetches |-> 0]
    ELSE IF ~FetchReturns(r.retry_ok, r.payload)
    THEN [raised |-> TRUE, events |-> <<>>, service |-> TRUE, fetches |-> 2]
    ELSE [raised |-> FALSE, events |-> FormatAll(r.payload, calendar_name),
          service |-> TRUE, fetches |-> 1]

\* _handle_auth_error: self.service = None and self._credentials = None, then
\* _initialize_service(force_refresh=True) and one more call of
\* _fetch_calendar_events; any exception of the two becomes a RuntimeError.
\* fetches counts the calls of _fetch_calendar_events it makes.
handle_auth_error(r, calendar_name) ==
    IF ~r.reinit_ok
    THEN [raised |-> TRUE, events |-> <<>>, service |-> FALSE, fetches |-> 0]
    ELSE IF ~FetchReturns(r.retry_ok, r.payload)
    THEN [raised |-> TRUE, events |-> <<>>, service |-> TRUE, fetches |-> 1]
    ELSE [raised |-> FALSE, events |-> FormatAll(r.payload, calendar_name),
          service |-> TRUE, fetches |-> 1]

\* The loop of get_events over the calendars from k on: the events gathered,
\* or the RuntimeError of _handle_auth_error, whether a service is left, and
\* the number of calls of _fetch_calendar_events made for each calendar the
\* loop came to.
RECURSIVE FetchCalendars(_, _, _, _)
FetchCalendars(runs, k, acc, counts) ==
    IF k > Len(runs)
    THEN [failed |-> FALSE, events |-> acc, service |-> TRUE, fetches |-> counts]
    ELSE LET r == runs[k]
         IN  IF FetchReturns(r.first = "ok", r.payload)
             THEN FetchCalendars(runs, k + 1,
                                 acc \o FormatAll(r.payload, CalendarNames[k]),
                                 Append(counts, 1))
             ELSE IF r.first # "auth_error"
             THEN FetchCalendars(runs, k + 1, acc, Append(counts, 1))
             ELSE LET again == handle_auth_error(r, CalendarNames[k])
                  IN  IF again.raised
                      THEN [failed |-> TRUE, events |-> <<>>,
                            service |-> again.service,
                            fetches |-> Append(counts, 1 + again.fetches)]
                      ELSE FetchCalendars(runs, k + 1, acc \o again.events,
                                          Append(counts, 1 + again.fetches))

\* What Google answers to one call of get_events.  init_ok: the client id and
\* valid credentials are there for _initialize_service; runs: what fetching each
\* configured calendar meets.
GoogleAnswer(init_ok, runs) == [source |-> "google", init_ok |-> init_ok, runs |-> runs]

\* A get_events that logs the RuntimeError of _handle_auth_error and returns
\* what it has.
GetEventsNeverRaises(answer, cached) ==
    IF ~cached /\ ~answer.init_ok
    THEN [failed |-> TRUE, events |-> <<>>, week |-> <<>>, service |-> FALSE,
          fetches |-> <<>>]
    ELSE LET got == FetchCalendars(answer.runs, 1, <<>>, <<>>)
         IN  [failed |-> FALSE, events |-> got.events,
              week |-> <<GoogleWeek>>, service |-> got.service,
              fetches |-> got.fetches]

\* get_events, called with self.service built already (cached) or not:
\* whether it raises RuntimeError, the events it returns, the week window it
\* computed (none, <<>>, when _initialize_service raises) and whether a
\* service is left.
get_events(answer, cached) ==
    IF ~cached /\ ~answer.init_ok
    THEN [failed |-> TRUE, events |-> <<>>, week |-> <<>>, service |-> FALSE,
          fetches |-> <<>>]
    ELSE LET got == FetchCalendars(answer.runs, 1, <<>>, <<>>)
         IN  [failed |-> got.failed, events |-> got.events,
              week |-> <<GoogleWeek>>, service |-> got.service,
              fetches |-> got.fetches]

\* No provider answer is under study.
NoProvider == [source |-> "none"]

-----------------------------------------------------------------------------
(* plugins/calendar/calendar.py and plugins/ticktick/ticktick.py: the two  *)
(* older plugins, which filter the TickTick tasks and draw the week        *)
(* themselves.                                                             *)

\* week_start = datetime.now() - timedelta(days=datetime.now().weekday())
\* week_end = week_start + timedelta(days=6)
PluginFilterWeek ==
    LET today == NaiveNow
        week_start == PlusDays(today, -Weekday(Date(today)))
    IN  WeekWindow(today, week_start, PlusDays(week_start, 6))

\* generate_image: today = datetime.now()
\*     days_to_sunday = (today.weekday() + 1) % 7
\*     week_start = today - timedelta(days=days_to_sunday)
PluginDisplayWeek ==
    LET today == NaiveNow
        days_to_sunday == (Weekday(Date(today)) + 1) % 7
        week_start == PlusDays(today, -days_to_sunday)
    IN  WeekWindow(today, week_start, PlusDays(week_start, 6))

\* The body of the loop over the tasks, the same in both plugins: <<>> when
\* the task is skipped, the task dict otherwise (its dates converted to the
\* local zone by astimezone()).  task['title'] is read after the filter.
plugin_task(task, week) ==
    IF task.startDate.kind = "none" /\ task.dueDate.kind = "none" THEN <<>>
    ELSE LET start_str == FirstDate(task.startDate, task.dueDate)
             end_str == FirstDate(task.dueDate, task.startDate)
         IN  IF start_str.kind = "bad" \/ end_str.kind = "bad" THEN <<>>
             ELSE LET start_dt == AsTimezone(ParseInstant(start_str), sys_tz)
                      end_dt == AsTimezone(ParseInstant(end_str), sys_tz)
                  IN  IF \/ Date(end_dt) < Date(week.start)
                         \/ Date(start_dt) > Date(week.end)
                      THEN <<>>
                      ELSE <<TickTickTask(task.title[1], start_dt, end_dt,
                                          sys_tz, task.isAllDay,
                                          GetOrZero(task.status) = 2,
                                          GetOrZero(task.priority))>>

\* Calendar._organize_ticktick_tasks, and TickTick._organize_tasks_for_calendar
\* of the TickTick plugin: the tasks kept, in the provider's order.
RECURSIVE organize_ticktick_tasks(_, _)
organize_ticktick_tasks(raw, week) ==
    IF raw = <<>> THEN <<>>
    ELSE plugin_task(Head(raw), week) \o organize_ticktick_tasks(Tail(raw), week)

\* What the TickTick API answers to one of the two plugins.
PluginAnswer(plugin, raw) == [source |-> "plugin", plugin |-> plugin, tasks |-> raw]

-----------------------------------------------------------------------------
(* Bounds of the model and the inputs drawn within them.                   *)

DaysBefore == 2     \* items start from day -DaysBefore ...
MaxDay == 8         \* ... to day MaxDay
MaxSpan == 8        \* an item ends from 1 day before to MaxSpan days after its start day
MaxNowDay == 7      \* the clock is read on days 0..MaxNowDay
MaxItems == 3       \* length of the longest item list
MaxNegDur == 65     \* timed items of the fine grid last from -MaxNegDur ...
MaxDur == 185       \* ... to MaxDur minutes, minute by minute

\* Timezone offsets in minutes (US/Eastern standard time, UTC).
TzOffsets == {-300, 0}

\* Times of day items start and end at: midnight, 09:00, 22:00.
Tods == {0, 540, 1320}

\* Times of day (UTC) at which the clock is read.
NowTods == {120, 1380}

At(day, tod) == day * MinutesPerDay + tod

Nows == {At(d, t) : d \in 0..MaxNowDay, t \in NowTods}

\* Single items over the whole grid of days and times of day, start after end
\* included (TickTick._process_single_task does not compare them).
WideItems ==
    {Item("W", At(sd, st), At(sd + span, et), 0, ad, "ticktick") :
        sd \in (-DaysBefore)..MaxDay, st \in Tods,
        span \in (-1)..MaxSpan, et \in Tods, ad \in BOOLEAN}

\* Timed and all-day items from Tuesday 10:00 on, of every duration of the
\* fine grid.
FineItems ==
    {Item("F", At(2, 600), At(2, 600) + d, 0, ad, "ticktick") :
        d \in (-MaxNegDur)..MaxDur, ad \in BOOLEAN}

\* Named items of the week of day 0 (Tuesday is day 2).
ItemA == Item("A", At(2, 0), At(2, 0), 0, TRUE, "ticktick")
ItemB == Item("B", At(2, 540), At(2, 570), 0, FALSE, "google")
ItemC == Item("C", At(2, 600), At(2, 750), 0, FALSE, "google")
\* a timed item starting with B
ItemD == Item("D", At(2, 540), At(2, 600), 0, FALSE, "ticktick")
\* an all-day item of Monday to Wednesday
ItemM == Item("M", At(1, 0), At(3, 0), 0, TRUE, "google")
\* a timed item from Monday 22:00 to Tuesday 23:00
ItemN == Item("N", At(1, 1320), At(2, 1380), 0, FALSE, "google")

\* a second all-day item of Tuesday
ItemE == Item("E", At(2, 0), At(2, 0), 0, TRUE, "google")

Catalogue == {ItemA, ItemB, ItemC, ItemD, ItemE, ItemM, ItemN}

\* The lists of at most n different elements of S.
DistinctLists(S, n) ==
    {s \in UNION {[1..k -> S] : k \in 0..n} :
        \A i, j \in DOMAIN s : i # j => s[i] # s[j]}

MaxRawTasks == 2    \* length of the longest list of provider tasks
MaxTicks == 1       \* how often the clock advances during one render

\* The clock advances by two hours at a time.
TickMinutes == 2 * 60

\* Provider tasks of the week of day 0: well-formed and timed; due date only
\* and all-day; malformed start; no dates; start after due; no title.
RawTasks ==
    {RawTask(<<"T1">>, DateTimeStr(At(2, 540), 0), DateTimeStr(At(2, 600), 0), FALSE),
     RawTask(<<"T2">>, NoDate, DateTimeStr(At(3, 0), 0), TRUE),
     RawTask(<<"T3">>, BadDate, DateTimeStr(At(3, 0), 0), FALSE),
     RawTask(<<"T4">>, NoDate, NoDate, FALSE),
     RawTask(<<"T5">>, DateTimeStr(At(2, 600), 0), DateTimeStr(At(2, 540), 0), FALSE),
     RawTask(<<>>, DateTimeStr(At(4, 540), 60), DateTimeStr(At(4, 600), 60), FALSE),
     [RawTask(<<"T6">>, DateTimeStr(At(3, 540), 0), DateTimeStr(At(3, 600), 0), FALSE)
        EXCEPT !.status = <<2>>, !.priority = <<3>>]}

\* How get_tasks can fail before it has a task list: no token configured,
\* token rejected, request failed, response without 'tasks'.
TaskFailures == {"no_token", "invalid_token", "request_failed", "bad_format"}

\* Provider events: a timed one (14:00-15:00 UTC on Tuesday), an all-day one
\* (Wednesday), one without a summary and one with a malformed start.
EventE1 == RawEvent(<<"E1">>, DateTimeStr(At(2, 840), 0), DateTimeStr(At(2, 900), 0))
EventE2 == RawEvent(<<"E2">>, DateStr(3), DateStr(4))
EventE3 == RawEvent(<<>>, DateTimeStr(At(4, 600), 0), DateTimeStr(At(4, 660), 0))
EventE4 == RawEvent(<<"E4">>, BadDate, DateTimeStr(At(5, 660), 0))

RawEvents == {EventE1, EventE2, EventE3, EventE4}

\* What one calendar answers: nothing, one event, or a well-formed event
\* beside one that is not.
EventPayloads ==
    {<<>>, <<EventE1>>, <<EventE2>>, <<EventE1, EventE3>>, <<EventE4, EventE2>>}

CalendarRuns ==
    {CalendarRun("ok", TRUE, TRUE, p) : p \in EventPayloads}
        \cup {CalendarRun("error", TRUE, TRUE, <<>>),
              CalendarRun("auth_error", FALSE, FALSE, <<>>),
              CalendarRun("auth_error", TRUE, FALSE, <<>>)}
        \cup {CalendarRun("auth_error", TRUE, TRUE, p) : p \in EventPayloads}

\* The answers of the TickTick API.
TickTickAnswers ==
    {TickTickAnswer(f, <<>>) : f \in TaskFailures}
        \cup {TickTickAnswer("none", raw) : raw \in DistinctLists(RawTasks, MaxRawTasks)}

\* Titled tasks of an hour at 09:00 UTC, from the Sunday of day 0 to the
\* Sunday after.
TaskOn(day) ==
    RawTask(<<"U">>, DateTimeStr(At(day, 540), 0), DateTimeStr(At(day, 600), 0), FALSE)

PluginTaskDays == {0, 2, 6, 7}

\* The answers of the TickTick API to the two older plugins.
PluginAnswers ==
    {PluginAnswer(pl, raw) :
        pl \in {"calendar", "ticktick"},
        raw \in DistinctLists({TaskOn(d) : d \in PluginTaskDays}, MaxRawTasks)}

\* The answers of Google: no credentials at all, or one run per calendar.
GoogleAnswers ==
    {GoogleAnswer(FALSE, [k \in DOMAIN CalendarNames |-> CalendarRun("error", TRUE, TRUE, <<>>)])}
        \cup {GoogleAnswer(TRUE, runs) : runs \in [DOMAIN CalendarNames -> CalendarRuns]}

\* Three timed items of three hours each on Tuesday: their column is higher
\* than the canvas.
ItemG == Item("G", At(2, 480), At(2, 660), 0, FALSE, "google")
ItemH == Item("H", At(2, 660), At(2, 840), 0, FALSE, "google")
ItemK == Item("K", At(2, 840), At(2, 1020), 0, FALSE, "google")

\* Items of Tuesday with titles of several words: an all-day one, a timed one
\* of 20 minutes at 09:00 and a timed one of an hour at 22:00.
ItemL == Item("L", At(2, 0), At(2, 0), 0, TRUE, "ticktick")
ItemS == Item("S", At(2, 540), At(2, 560), 0, FALSE, "google")
ItemX == Item("X", At(2, 1320), At(2, 1380), 0, FALSE, "ticktick")

\* day_width = int(display_width * CALENDAR_WIDTH_RATIO) // 7 for a display
\* 1200 pixels wide (the default of generate_image) and for one 800 wide.
DefaultDayWidth == (1200 * 85) \div (100 * 7)
DayWidths == {DefaultDayWidth, (800 * 85) \div (100 * 7)}

\* The lists painted at every column width, with and without a font.
WrapLists == DistinctLists({ItemL, ItemS, ItemX, ItemA, ItemB}, MaxItems)

\* Priorities of the lookup, and one that is not in it.
Priorities == {0, 1, 2, 3, 5}

\* Calendar names of the lookup, and one that is not in it.
ColourCalendars == {"primary", "work", "holidays", "birthdays", "family"}

\* Tasks of every priority, completed or not, and events of the calendars.
ColourItems ==
    {TickTickTask("P", At(2, 0), At(2, 0), 0, TRUE, c, p) :
        c \in BOOLEAN, p \in Priorities}
      \cup {CalendarEvent("Q", At(2, 540), At(2, 570), 0, FALSE, n) :
                n \in ColourCalendars}

ItemLists ==
    {<<i>> : i \in WideItems \cup FineItems \cup ColourItems}
        \cup DistinctLists(Catalogue, MaxItems)
        \cup {<<ItemG, ItemH, ItemK>>} \cup WrapLists

-----------------------------------------------------------------------------
(* The layout engine: one call of CalendarRenderer.draw_calendar_items.    *)

\* No render entry point is running.
ImageIdle ==
    /\ device_tz = 0
    /\ pc = "idle"
    /\ tasks = <<>>
    /\ events = <<>>
    /\ tasks_status = "pending"
    /\ events_status = "pending"
    /\ tt_week = <<>>
    /\ gc_week = <<>>
    /\ header_week = <<>>
    /\ service = FALSE
    /\ raised = 0
    /\ image = "none"
    /\ saved = FALSE
    /\ ticks = 0
    /\ fetches = <<>>

\* No token file, and get_valid_credentials has not been called.
AuthIdle ==
    /\ token_file = [kind |-> "missing"]
    /\ credential = <<>>
    /\ refreshes = 0
    /\ auth_status = "pending"
    /\ calls = 0

\* The renderer has not been called.
LayoutIdle ==
    /\ items_by_day = EmptyColumns
    /\ placements = EmptyColumns
    /\ rendered = FALSE

Init ==
    /\ now \in Nows
    /\ sys_tz \in TzOffsets
    /\ provider = NoProvider
    /\ items \in ItemLists
    /\ day_width \in (IF items \in WrapLists THEN DayWidths ELSE {DefaultDayWidth})
    /\ task_font \in (IF items \in WrapLists THEN BOOLEAN ELSE {TRUE})
    /\ LayoutIdle
    /\ ImageIdle
    /\ AuthIdle

\* draw_calendar_items(draw, items, ...): bucket, sort each day, paint each day.
DrawCalendarItems ==
    /\ ~rendered
    /\ LET week_start == calculate_week_start
           cols == SortedColumns(items, week_start)
       IN  /\ items_by_day' = cols
           /\ placements' = [d \in Columns |-> draw_day_items(cols[d])]
    /\ rendered' = TRUE
    /\ UNCHANGED <<now, sys_tz, provider, items, day_width, task_font, image_vars,
                   auth_vars>>

Next == DrawCalendarItems

Spec == Init /\ [][Next]_vars

-----------------------------------------------------------------------------
(* Vocabulary of the claims about the layout engine.                       *)

\* The week start draw_calendar_items used (the clock does not move in a call).
WeekStartDate == Date(calculate_week_start)

StartIndex(it) == Date(it.start) - WeekStartDate
EndIndex(it) == Date(it.end) - WeekStartDate

\* How often column d holds the item.
TimesInColumn(it, d) ==
    Cardinality({i \in DOMAIN items_by_day[d] : items_by_day[d][i] = it})

InColumn(it, d) == TimesInColumn(it, d) > 0

InputItems == {items[k] : k \in DOMAIN items}

\* The place of an item in the input list (the lists hold no item twice).
InputPos(it) == CHOOSE k \in DOMAIN items : items[k] = it

\* The places <<column, rank>> that hold a placement.
PlacedAt == UNION {{<<d, i>> : i \in DOMAIN placements[d]} : d \in Columns}

DurationMinutes(it) == Instant(it.end, it.tz) - Instant(it.start, it.tz)

\* C1: a multi-day item (end date later than start date) is in column d
\* exactly when d lies in [start_index, end_index] (so clipped to 0..6),
\* whatever the times of day of its start and end.
C1_MultiDayEveryDay ==
    rendered =>
        \A it \in InputItems :
            Date(it.end) > Date(it.start) =>
                \A d \in Columns :
                    InColumn(it, d) <=> (StartIndex(it) <= d /\ d <= EndIndex(it))

\* C2: a placed timed item lasting 0..180 minutes has height
\* base unit * (floor(minutes / 30) + 1).
C2_HeightUpToThreeHours ==
    rendered =>
        \A pl \in PlacedAt :
            LET p == placements[pl[1]][pl[2]]
                dur == DurationMinutes(p.item)
            IN  (~p.item.is_all_day /\ 0 <= dur /\ dur <= 180) =>
                    p.pixel_height = TASK_HEIGHT * ((dur \div 30) + 1)

\* C2's case: a timed item of exactly 180 minutes placed with 7 units.
C2_Witness ==
    /\ rendered
    /\ \E pl \in PlacedAt :
        LET p == placements[pl[1]][pl[2]]
        IN  /\ ~p.item.is_all_day
            /\ DurationMinutes(p.item) = 180
            /\ p.pixel_height = 7 * TASK_HEIGHT

\* C3: a placed timed item lasting more than 180 minutes, and every placed
\* all-day item whatever its span, has exactly one base unit; 180 minutes
\* give 7 units and 181 minutes give 1.
C3_LongAndAllDayOneUnit ==
    rendered =>
        \A pl \in PlacedAt :
            LET p == placements[pl[1]][pl[2]]
                dur == DurationMinutes(p.item)
            IN  /\ (~p.item.is_all_day /\ dur > 180) => p.pixel_height = TASK_HEIGHT
                /\ p.item.is_all_day => p.pixel_height = TASK_HEIGHT
                /\ (~p.item.is_all_day /\ dur = 180) => p.pixel_height = 7 * TASK_HEIGHT
                /\ (~p.item.is_all_day /\ dur = 181) => p.pixel_height = TASK_HEIGHT

\* C3's case: a timed item of 181 minutes placed with one unit.
C3_Witness ==
    /\ rendered
    /\ \E pl \in PlacedAt :
        LET p == placements[pl[1]][pl[2]]
        IN  /\ ~p.item.is_all_day
            /\ DurationMinutes(p.item) = 181
            /\ p.pixel_height = TASK_HEIGHT

\* C4: every height computed for a timed item is k * base unit with k >= 1.
C4_HeightPositiveMultiple ==
    rendered =>
        \A pl \in PlacedAt :
            LET p == placements[pl[1]][pl[2]]
            IN  ~p.item.is_all_day =>
                    /\ p.pixel_height >= TASK_HEIGHT
                    /\ p.pixel_height % TASK_HEIGHT = 0

\* C4's case: a timed item of no duration placed with the least height, k = 1.
C4_Witness ==
    /\ rendered
    /\ \E pl \in PlacedAt :
        LET p == placements[pl[1]][pl[2]]
        IN  /\ ~p.item.is_all_day
            /\ DurationMinutes(p.item) = 0
            /\ p.pixel_height = TASK_HEIGHT

\* The titles painted in column d, top to bottom.
ColumnTitles(d) == [i \in DOMAIN placements[d] |-> placements[d][i].item.title]

\* The height column d gives to the item.
PlacedHeight(it, d) ==
    LET i == CHOOSE j \in DOMAIN placements[d] : placements[d][j].item = it
    IN  placements[d][i].pixel_height

\* The input is A (all-day), B (09:00-09:30) and C (10:00-12:30), in some order.
IsScenarioABC == Len(items) = 3 /\ InputItems = {ItemA, ItemB, ItemC}

\* The column of the day of A, B and C.
ScenarioColumn == StartIndex(ItemA)

\* C5 as claimed: the column's order is [A, B, C], height(B) is 1 base unit
\* and height(C) is 6 base units.
C5_ScenarioAsClaimed ==
    (rendered /\ IsScenarioABC /\ ScenarioColumn \in Columns) =>
        /\ ColumnTitles(ScenarioColumn) = <<"A", "B", "C">>
        /\ PlacedHeight(ItemB, ScenarioColumn) = 1 * TASK_HEIGHT
        /\ PlacedHeight(ItemC, ScenarioColumn) = 6 * TASK_HEIGHT

\* C5 amended: the column's order is [A, B, C], height(B) is 2 base units
\* (30 minutes: floor(30 / 30) + 1) and height(C) is 6 base units.
C5_Scenario ==
    (rendered /\ IsScenarioABC /\ ScenarioColumn \in Columns) =>
        /\ ColumnTitles(ScenarioColumn) = <<"A", "B", "C">>
        /\ PlacedHeight(ItemB, ScenarioColumn) = 2 * TASK_HEIGHT
        /\ PlacedHeight(ItemC, ScenarioColumn) = 6 * TASK_HEIGHT

\* C5's case: the three items given in the order C, B, A and painted.
C5_Witness ==
    /\ rendered
    /\ items = <<ItemC, ItemB, ItemA>>
    /\ ScenarioColumn \in Columns
    /\ Len(placements[ScenarioColumn]) = 3

\* Pairs of places i < j of column d.
ColumnPairs(d) ==
    {<<i, j>> \in (DOMAIN placements[d]) \X (DOMAIN placements[d]) : i < j}

StartInstant(it) == Instant(it.start, it.tz)

\* All-day items come before timed ones in every column.
AllDayFirst ==
    \A d \in Columns : \A ij \in ColumnPairs(d) :
        LET a == placements[d][ij[1]].item
            b == placements[d][ij[2]].item
        IN  b.is_all_day => a.is_all_day

\* Timed items: ascending by start, equal starts in input order.
TimedByStartStable ==
    \A d \in Columns : \A ij \in ColumnPairs(d) :
        LET a == placements[d][ij[1]].item
            b == placements[d][ij[2]].item
        IN  (~a.is_all_day /\ ~b.is_all_day) =>
                /\ StartInstant(a) <= StartInstant(b)
                /\ StartInstant(a) = StartInstant(b) => InputPos(a) < InputPos(b)

\* All-day items in input order.
AllDayInInputOrder ==
    \A d \in Columns : \A ij \in ColumnPairs(d) :
        LET a == placements[d][ij[1]].item
            b == placements[d][ij[2]].item
        IN  (a.is_all_day /\ b.is_all_day) => InputPos(a) < InputPos(b)

\* All-day items: ascending by start, equal starts in input order.
AllDayByStartStable ==
    \A d \in Columns : \A ij \in ColumnPairs(d) :
        LET a == placements[d][ij[1]].item
            b == placements[d][ij[2]].item
        IN  (a.is_all_day /\ b.is_all_day) =>
                /\ StartInstant(a) <= StartInstant(b)
                /\ StartInstant(a) = StartInstant(b) => InputPos(a) < InputPos(b)

\* C6 as claimed: in every column the all-day items precede the timed ones
\* and keep their input order (also when their starts differ); the timed
\* items ascend by start, equal starts in input order.
C6_OrderAsClaimed ==
    rendered => (AllDayFirst /\ AllDayInInputOrder /\ TimedByStartStable)

\* C6 amended: in every column the all-day items precede the timed ones;
\* within the all-day items and within the timed items the order ascends by
\* start, and items of equal start keep their input order.
C6_Order ==
    rendered => (AllDayFirst /\ AllDayByStartStable /\ TimedByStartStable)

\* C6's case: the all-day items E, M, A given in this order; M starts on
\* Monday and is painted first on Tuesday, E and A start together and keep
\* their input order.
C6_Witness ==
    /\ rendered
    /\ items = <<ItemE, ItemM, ItemA>>
    /\ ScenarioColumn \in Columns
    /\ ColumnTitles(ScenarioColumn) = <<"M", "E", "A">>

\* C7: an item that ends before the date of week_start, or starts after the
\* date of week_start + 6 days, is in none of the seven columns.
C7_OutsideWeekNeverPlaced ==
    rendered =>
        \A it \in InputItems :
            (Date(it.end) < WeekStartDate \/ Date(it.start) > WeekStartDate + 6) =>
                \A d \in Columns : ~InColumn(it, d)

\* C7's case: an item with start <= end that ended before the week began
\* went through the bucketing loop, and one that starts after the week.
C7_Witness ==
    /\ rendered
    /\ \E it \in InputItems :
        /\ it.start <= it.end
        /\ Date(it.end) < WeekStartDate
        /\ Date(it.end) - Date(it.start) >= 2
        /\ \A d \in Columns : ~InColumn(it, d)

\* C8: an item whose end date is not later than its start date is exactly
\* once in column start_index when 0 <= start_index <= 6, in no other
\* column, and in no column otherwise.
C8_SingleDayByStartDate ==
    rendered =>
        \A it \in InputItems :
            Date(it.end) <= Date(it.start) =>
                \A d \in Columns :
                    TimesInColumn(it, d) = (IF d = StartIndex(it) THEN 1 ELSE 0)

-----------------------------------------------------------------------------
(* task_calendar.py: one call of TaskCalendar.generate_image, step by step *)

\* A try block that lets a failed fetch count as an empty result and goes on.
ExceptTolerant(step) ==
    IF step = "tasks" THEN "events"
    ELSE IF step = "events" THEN "draw"
    ELSE "failed"

\* An except clause that only logs what image.save raises.
ExceptSwallowSave(step) == IF step = "save" THEN "done" ELSE "failed"

\* except Exception as e: raise CalendarError(...): whatever step of the try
\* block raised, the call ends with the error.
ExceptClause(step) == "failed"

\* The step a failure at pc leads to, and the CalendarError it raises.
Fails ==
    /\ pc' = ExceptClause(pc)
    /\ raised' = IF pc' = "failed" THEN raised + 1 ELSE raised

\* self._initialize_services(): TickTick() and GoogleCalendar() are built, or
\* building them raises.
StartRender ==
    /\ pc = "idle"
    /\ \/ pc' = "tasks" /\ UNCHANGED raised
       \/ Fails
    /\ UNCHANGED <<now, sys_tz, provider, auth_vars, layout_vars,
                   fetches, device_tz, tasks, events,
                   tasks_status, events_status, tt_week, gc_week, header_week,
                   service, image, saved, ticks>>

\* tasks = self._ticktick.get_tasks(device_config)
GetTasks ==
    /\ pc = "tasks"
    /\ \E answer \in TickTickAnswers :
            LET got == get_tasks(answer)
            IN  /\ tt_week' = got.week
                /\ IF got.failed
                   THEN /\ tasks_status' = "failed"
                        /\ Fails
                        /\ UNCHANGED tasks
                   ELSE /\ tasks' = got.tasks
                        /\ tasks_status' = "ok"
                        /\ pc' = "events"
                        /\ UNCHANGED raised
    /\ UNCHANGED <<now, sys_tz, provider, auth_vars, layout_vars,
                   fetches, device_tz, events, events_status,
                   gc_week, header_week, service, image, saved, ticks>>

\* events = self._google_calendar.get_events(device_config)
GetEvents ==
    /\ pc = "events"
    /\ \E answer \in GoogleAnswers :
            LET got == get_events(answer, service)
            IN  /\ gc_week' = got.week
                /\ service' = got.service
                /\ fetches' = got.fetches
                /\ IF got.failed
                   THEN /\ events_status' = "failed"
                        /\ Fails
                        /\ UNCHANGED events
                   ELSE /\ events' = got.events
                        /\ events_status' = "ok"
                        /\ pc' = "draw"
                        /\ UNCHANGED raised
    /\ UNCHANGED <<now, sys_tz, provider, auth_vars, layout_vars,
                   device_tz, tasks, tasks_status,
                   tt_week, header_week, image, saved, ticks>>

\* all_items = tasks + events
AllItems == tasks \o events

\* _draw_calendar_structure: today = datetime.now()
\*     days_to_sunday = (today.weekday() + 1) % 7
\*     week_start = today - timedelta(days=days_to_sunday)
\* and the seven headers are week_start + 0..6 days.
HeaderWeek ==
    LET today == NaiveNow
        days_to_sunday == (Weekday(Date(today)) + 1) % 7
        week_start == PlusDays(today, -days_to_sunday)
    IN  WeekWindow(today, week_start, PlusDays(week_start, 6))

\* _load_fonts, _draw_calendar_structure, _draw_calendar_items and
\* _draw_timestamp.  _draw_calendar_items reads item['start'] of its first
\* item, and the items are dataclass objects: a TypeError unless the list is
\* empty.  Before that, Image.new or ImageDraw.Draw can raise.
DrawImage ==
    /\ pc = "draw"
    /\ \/ /\ Fails
          /\ UNCHANGED header_week
       \/ /\ header_week' = <<HeaderWeek>>
          /\ IF AllItems # <<>>
             THEN Fails
             ELSE pc' = "save" /\ UNCHANGED raised
    /\ UNCHANGED <<now, sys_tz, provider, auth_vars, layout_vars,
                   fetches, device_tz, tasks, events,
                   tasks_status, events_status, tt_week, gc_week, service,
                   image, saved, ticks>>

\* image.save('/tmp/calendar.png'); return image
SaveImage ==
    /\ pc = "save"
    /\ \/ /\ saved' = TRUE
          /\ image' = "returned"
          /\ pc' = "done"
          /\ UNCHANGED raised
       \/ /\ Fails
          /\ UNCHANGED <<saved, image>>
    /\ UNCHANGED <<now, sys_tz, provider, auth_vars, layout_vars,
                   fetches, device_tz, tasks, events,
                   tasks_status, events_status, tt_week, gc_week, header_week,
                   service, ticks>>

\* Time passes while generate_image runs.
Tick ==
    /\ pc \in {"tasks", "events", "draw", "save"}
    /\ ticks < MaxTicks
    /\ ticks' = ticks + 1
    /\ now' = now + TickMinutes
    /\ UNCHANGED <<sys_tz, provider, auth_vars, layout_vars,
                   fetches, device_tz, pc, tasks, events,
                   tasks_status, events_status, tt_week, gc_week, header_week,
                   service, raised, image, saved>>

InitImage ==
    /\ now \in Nows
    /\ sys_tz \in TzOffsets
    /\ provider = NoProvider
    /\ items = <<>>
    /\ day_width = DefaultDayWidth
    /\ task_font = TRUE
    /\ LayoutIdle
    /\ AuthIdle
    /\ device_tz \in TzOffsets
    /\ pc = "idle"
    /\ tasks = <<>>
    /\ events = <<>>
    /\ tasks_status = "pending"
    /\ events_status = "pending"
    /\ tt_week = <<>>
    /\ gc_week = <<>>
    /\ header_week = <<>>
    /\ service = FALSE
    /\ raised = 0
    /\ image = "none"
    /\ saved = FALSE
    /\ ticks = 0
    /\ fetches = <<>>

NextImage == StartRender \/ GetTasks \/ GetEvents \/ DrawImage \/ SaveImage \/ Tick

SpecImage == InitImage /\ [][NextImage]_vars

-----------------------------------------------------------------------------
(* Claims about the week window and the render entry point.                *)

\* The window starts on the Sunday found by going back
\* ((Monday-based weekday + 1) mod 7) days from today, keeps today in it, and
\* ends 6 days later, on a Saturday.
SundayToSaturday(w) ==
    /\ Weekday(Date(w.start)) = 6
    /\ w.start = PlusDays(w.today, -((Weekday(Date(w.today)) + 1) % 7))
    /\ Date(w.start) <= Date(w.today) /\ Date(w.today) <= Date(w.start) + 6
    /\ w.end = PlusDays(w.start, 6)
    /\ Weekday(Date(w.end)) = 5

\* The window of ui/layout.py at the current clock (the renderer adds the 6
\* days itself).
LayoutWeek ==
    WeekWindow(NaiveNow, calculate_week_start, PlusDays(calculate_week_start, 6))

AdapterFailed == tasks_status = "failed" \/ events_status = "failed"

ExactlyOneAdapterFailed ==
    \/ tasks_status = "failed" /\ events_status = "ok"
    \/ tasks_status = "ok" /\ events_status = "failed"

-----------------------------------------------------------------------------
(* One call of a source adapter on a given answer of its provider.         *)

InitFetch ==
    /\ now \in Nows
    /\ sys_tz = 0
    /\ provider \in TickTickAnswers \cup GoogleAnswers \cup PluginAnswers
    /\ items = <<>>
    /\ day_width = DefaultDayWidth
    /\ task_font = TRUE
    /\ LayoutIdle
    /\ AuthIdle
    /\ device_tz \in TzOffsets
    /\ pc = "idle"
    /\ tasks = <<>>
    /\ events = <<>>
    /\ tasks_status = "pending"
    /\ events_status = "pending"
    /\ tt_week = <<>>
    /\ gc_week = <<>>
    /\ header_week = <<>>
    /\ service = FALSE
    /\ raised = 0
    /\ image = "none"
    /\ saved = FALSE
    /\ ticks = 0
    /\ fetches = <<>>

\* TickTick().get_tasks(device_config)
FetchTasks ==
    /\ provider.source = "ticktick"
    /\ tasks_status = "pending"
    /\ LET got == get_tasks(provider)
       IN  /\ tasks' = got.tasks
           /\ tt_week' = got.week
           /\ tasks_status' = IF got.failed THEN "failed" ELSE "ok"
    /\ UNCHANGED <<now, sys_tz, provider, auth_vars, layout_vars,
                   fetches, device_tz, pc, events,
                   events_status, gc_week, header_week, service, raised,
                   image, saved, ticks>>

\* GoogleCalendar().get_events(device_config)
FetchEvents ==
    /\ provider.source = "google"
    /\ events_status = "pending"
    /\ LET got == get_events(provider, service)
       IN  /\ events' = got.events
           /\ gc_week' = got.week
           /\ service' = got.service
           /\ fetches' = got.fetches
           /\ events_status' = IF got.failed THEN "failed" ELSE "ok"
    /\ UNCHANGED <<now, sys_tz, provider, auth_vars, layout_vars,
                   device_tz, pc, tasks,
                   tasks_status, tt_week, header_week, raised, image, saved,
                   ticks>>

\* get_ticktick_tasks of the Calendar plugin, or get_tasks of the TickTick
\* plugin, followed by the headers of generate_image.
FetchPluginTasks ==
    /\ provider.source = "plugin"
    /\ tasks_status = "pending"
    /\ tasks' = organize_ticktick_tasks(provider.tasks, PluginFilterWeek)
    /\ tt_week' = <<PluginFilterWeek>>
    /\ header_week' = <<PluginDisplayWeek>>
    /\ tasks_status' = "ok"
    /\ UNCHANGED <<now, sys_tz, provider, auth_vars, layout_vars,
                   fetches, device_tz, pc, events, events_status, gc_week,
                   service, raised, image, saved, ticks>>

NextFetch == FetchTasks \/ FetchEvents \/ FetchPluginTasks

SpecFetch == InitFetch /\ [][NextFetch]_vars

-----------------------------------------------------------------------------
(* Claims about the source adapters.                                       *)

GoogleCalled == provider.source = "google" /\ events_status # "pending"

TickTickCalled == provider.source = "ticktick" /\ tasks_status # "pending"

\* The first fetch of the calendar went through.
FetchedOk(r) == FetchReturns(r.first = "ok", r.payload)

\* An authentication error, then a refresh of the credentials and a retry
\* that went through.
Recovered(r) ==
    r.first = "auth_error" /\ r.reinit_ok /\ FetchReturns(r.retry_ok, r.payload)

\* An authentication error that the refresh and the retry did not repair.
AuthFailed(r) == r.first = "auth_error" /\ ~Recovered(r)

\* What a calendar contributes: its events when its fetch went through (at
\* once or after the refresh), nothing otherwise.
Contribution(r, calendar_name) ==
    IF FetchedOk(r) \/ Recovered(r)
    THEN FormatAll(r.payload, calendar_name) ELSE <<>>

RECURSIVE Contributions(_, _)
Contributions(runs, k) ==
    IF k > Len(runs) THEN <<>>
    ELSE Contribution(runs[k], CalendarNames[k]) \o Contributions(runs, k + 1)

\* C11 as claimed: whatever fails while one calendar is fetched, get_events
\* returns, with the events of every other calendar.
C11_AnyCalendarFailureSkipped ==
    (GoogleCalled /\ provider.init_ok) =>
        /\ events_status = "ok"
        /\ events = Contributions(provider.runs, 1)

\* C11 amended: a failure other than an authentication error is skipped and
\* the events of the other calendars, before and after, are returned; after an
\* authentication error the credentials are refreshed and the fetch is retried
\* once, and when that fails too get_events raises and returns no event at
\* all.
C11_CalendarFailures ==
    (GoogleCalled /\ provider.init_ok) =>
        IF \E k \in DOMAIN provider.runs : AuthFailed(provider.runs[k])
        THEN events_status = "failed" /\ events = <<>>
        ELSE events_status = "ok" /\ events = Contributions(provider.runs, 1)

\* C11's case: the first calendar times out, the second one answers an
\* event, and that event is returned.
C11_Witness ==
    /\ GoogleCalled
    /\ provider.runs[1].first = "error"
    /\ provider.runs[2].first = "ok" /\ provider.runs[2].payload = <<EventE1>>
    /\ events_status = "ok"
    /\ events = <<format_event(EventE1, CalendarNames[2])>>

\* A provider task _process_single_task can turn into an item: a title, at
\* least one date, and dates that parse.
TaskWellFormed(t) ==
    /\ t.title # <<>>
    /\ FirstDate(t.startDate, t.dueDate).kind = "dateTime"
    /\ FirstDate(t.dueDate, t.startDate).kind = "dateTime"

\* The tasks of the answer with every malformed one left out, one by one.
RECURSIVE KeptTasks(_, _)
KeptTasks(raw, week) ==
    IF raw = <<>> THEN <<>>
    ELSE (IF TaskWellFormed(Head(raw))
          THEN process_single_task(Head(raw), week) ELSE <<>>)
            \o KeptTasks(Tail(raw), week)

\* The events of the answers with every malformed one left out, one by one.
RECURSIVE KeptEvents(_, _)
KeptEvents(runs, k) ==
    IF k > Len(runs) THEN <<>>
    ELSE FormatAll(SelectSeq(runs[k].payload, EventWellFormed), CalendarNames[k])
            \o KeptEvents(runs, k + 1)

\* C12: a record with missing or malformed dates, or without a title, is
\* dropped alone: the well-formed records of the same fetch are returned and
\* the adapter does not raise, for TickTick tasks and for Google events.
C12_BadRecordDroppedAlone ==
    /\ (TickTickCalled /\ provider.failure = "none") =>
            /\ tasks_status = "ok"
            /\ tasks = KeptTasks(provider.tasks, TickTickWeek)
    /\ (/\ GoogleCalled /\ provider.init_ok
        /\ \A k \in DOMAIN provider.runs : provider.runs[k].first = "ok") =>
            /\ events_status = "ok"
            /\ events = KeptEvents(provider.runs, 1)

\* C13: get_events returns an empty list only when every calendar was
\* fetched and held no event, and raises when every calendar failed.
C13_FailureDistinctFromEmpty ==
    GoogleCalled =>
        /\ (events_status = "ok" /\ events = <<>>) =>
                \A k \in DOMAIN provider.runs :
                    /\ FetchedOk(provider.runs[k]) \/ Recovered(provider.runs[k])
                    /\ provider.runs[k].payload = <<>>
        /\ (\A k \in DOMAIN provider.runs :
                ~FetchedOk(provider.runs[k]) /\ ~Recovered(provider.runs[k])) =>
                events_status = "failed"

\* The provider events of the answer that became the item it.
RawEventsOf(it) ==
    {e \in UNION {{provider.runs[k].payload[j] : j \in DOMAIN provider.runs[k].payload} :
                    k \in DOMAIN provider.runs} :
        e.summary = <<it.title>>}

\* The columns the renderer puts the single item it into.
ColumnsOf(it) ==
    LET cols == BucketItem(it, it.start, calculate_week_start, EmptyColumns)
    IN  {d \in Columns : cols[d] # <<>>}

\* C14: an event with a date D and no time becomes an all-day item whose
\* start is midnight of the local date D; it is in the column of D when D is
\* in the week and never in the column of D - 1.
C14_AllDayOnItsDate ==
    (GoogleCalled /\ events_status = "ok") =>
        \A i \in DOMAIN events : \A e \in RawEventsOf(events[i]) :
            e.start.kind = "date" =>
                LET it == events[i]
                    D == e.start.day
                    week_day == Date(calculate_week_start)
                IN  /\ it.is_all_day
                    /\ TimeOfDay(it.start) = 0
                    /\ Date(it.start) = D
                    /\ InGrid(D - week_day) => (D - week_day) \in ColumnsOf(it)
                    /\ (D - 1 - week_day) \notin ColumnsOf(it)

\* C15: every item an adapter emits has start <= end.
C15_StartNotAfterEnd ==
    /\ \A i \in DOMAIN tasks :
            Instant(tasks[i].start, tasks[i].tz) <= Instant(tasks[i].end, tasks[i].tz)
    /\ \A i \in DOMAIN events :
            Instant(events[i].start, events[i].tz) <= Instant(events[i].end, events[i].tz)

-----------------------------------------------------------------------------
(* Claims about stacking and the painted boxes.                            *)

\* How often the item it is painted in column d.
TimesPainted(it, d) ==
    Cardinality({i \in DOMAIN placements[d] : placements[d][i].item = it})

\* C16: in every column the first placement starts at HEADER_HEIGHT + PADDING
\* and each later one at the previous y_offset + the previous pixel_height +
\* PADDING; every item bucketed into the column has its placement, however
\* high the column grows.
C16_StackedWithGutter ==
    rendered =>
        \A d \in Columns :
            /\ Len(placements[d]) = Len(items_by_day[d])
            /\ \A it \in InputItems : TimesPainted(it, d) = TimesInColumn(it, d)
            /\ \A i \in DOMAIN placements[d] :
                    placements[d][i].y_offset =
                        IF i = 1 THEN HEADER_HEIGHT + PADDING
                        ELSE placements[d][i - 1].y_offset
                                + placements[d][i - 1].pixel_height + PADDING

\* C16's case: three items stacked in Tuesday's column, the third one ending
\* below the canvas.
C16_Witness ==
    /\ rendered
    /\ Len(placements[2]) = 3
    /\ placements[2][3].y_offset =
            HEADER_HEIGHT + PADDING + 2 * (7 * TASK_HEIGHT + PADDING)
    /\ placements[2][3].y_offset + placements[2][3].pixel_height > display_height

\* C17: the painted box of an item is max(base height, line_count x
\* LINE_HEIGHT) high, stacking advances by that height, and so the boxes of two
\* consecutive items of a column do not overlap.
C17_BoxHeightFeedsStacking ==
    rendered =>
        \A d \in Columns : \A i \in DOMAIN placements[d] :
            LET p == placements[d][i]
                lines == LineCount(p.item) * LINE_HEIGHT
            IN  /\ p.box_height = (IF lines > p.pixel_height THEN lines ELSE p.pixel_height)
                /\ i > 1 =>
                    LET q == placements[d][i - 1]
                    IN  /\ p.y_offset = q.y_offset + q.box_height + PADDING
                        /\ q.y_offset + q.box_height <= p.y_offset

-----------------------------------------------------------------------------
(* Claims about the week window, the timezone and the failures of a render *)

\* The window starts at midnight.
StartsAtMidnight(w) == TimeOfDay(w.start) = 0

\* The requested range holds every instant of the seven dates of the window,
\* from Sunday 00:00 to the last minute of Saturday, local time.
CoversDisplayedDates(w) ==
    /\ RequestedRange(w).time_min <= Instant(At(Date(w.start), 0), device_tz)
    /\ RequestedRange(w).time_max >= Instant(At(Date(w.end) + 1, 0), device_tz) - 1

\* C18: the week window starts at Sunday 00:00 local time whatever the time
\* of day it is computed at, and the range requested from the provider holds
\* every instant of the seven displayed dates.
C18_WindowCoversDisplayedDates ==
    /\ \A i \in DOMAIN tt_week : StartsAtMidnight(tt_week[i])
    /\ \A i \in DOMAIN gc_week :
            StartsAtMidnight(gc_week[i]) /\ CoversDisplayedDates(gc_week[i])

\* C19: the items' local dates and every week window of one render are
\* computed in the configured timezone.
C19_ConfiguredTimezoneEverywhere ==
    /\ \A i \in DOMAIN tasks : tasks[i].tz = device_tz
    /\ \A i \in DOMAIN events : events[i].tz = device_tz
    /\ \A i \in DOMAIN header_week :
            ticks = 0 => header_week[i].today = DeviceNow

\* C20: a failure at any step of generate_image ends the call with exactly
\* one CalendarError and without an image; a call that ends without an error
\* returns the image; the image file is written only after both fetches and
\* the drawing went through.
C20_FailureIsOneCalendarError ==
    /\ raised <= 1
    /\ (pc = "failed") <=> (raised = 1)
    /\ pc = "failed" => (image = "none" /\ ~saved)
    /\ pc = "done" => (image = "returned" /\ saved)
    /\ image = "returned" => pc = "done"
    /\ saved =>
            /\ tasks_status = "ok" /\ events_status = "ok"
            /\ header_week # <<>>
            /\ pc = "done"

\* C20's case: both fetches and the drawing went through, image.save raised,
\* and the call ended with one error and no image.
C20_Witness ==
    /\ pc = "failed" /\ raised = 1
    /\ tasks_status = "ok" /\ events_status = "ok"
    /\ header_week # <<>> /\ AllItems = <<>>
    /\ image = "none" /\ ~saved

-----------------------------------------------------------------------------
(* Colors, the empty list and the bucketing loop.                          *)

\* The placements of all columns.
AllPlacements == {placements[pl[1]][pl[2]] : pl \in PlacedAt}

\* C22: the box of a completed task is gray whatever its priority; the box
\* of an uncompleted task has the color PRIORITY_COLORS gives its priority,
\* and the box of an event the color CALENDAR_COLORS gives its calendar name,
\* blue in both cases when the key is not in the lookup.
C22_FillColor ==
    rendered =>
        \A p \in AllPlacements :
            IF p.item.source = "ticktick" /\ p.item.completed
            THEN p.fill_color = "gray"
            ELSE IF p.item.source = "ticktick"
            THEN p.fill_color =
                    (IF p.item.priority \in DOMAIN PRIORITY_COLORS
                     THEN PRIORITY_COLORS[p.item.priority] ELSE "blue")
            ELSE p.fill_color =
                    (IF p.item.calendar_name \in DOMAIN CALENDAR_COLORS
                     THEN CALENDAR_COLORS[p.item.calendar_name] ELSE "blue")

\* C22's case: a completed task of high priority (pink when open) is painted
\* gray.
C22_Witness ==
    /\ rendered
    /\ \E p \in AllPlacements :
        /\ p.item.source = "ticktick" /\ p.item.completed
        /\ p.item.priority = 3
        /\ p.fill_color = "gray"

\* C23: the text of a box is black exactly when the box is yellow (in any
\* case of the letters), and white on every other fill color.
C23_TextColor ==
    rendered =>
        \A p \in AllPlacements :
            /\ p.text_color \in {"black", "white"}
            /\ p.text_color = "black" <=> Lower(p.fill_color) = "yellow"

\* C23's case: an event of the work calendar is painted yellow, with black
\* text.
C23_Witness ==
    /\ rendered
    /\ \E p \in AllPlacements :
        /\ p.item.calendar_name = "work"
        /\ p.fill_color = "yellow" /\ p.text_color = "black"

RECURSIVE SumHeights(_)
SumHeights(seq) ==
    IF seq = <<>> THEN 0 ELSE Head(seq).pixel_height + SumHeights(Tail(seq))

\* The total item height of column d.
TotalItemHeight(d) == SumHeights(placements[d])

\* C25: an empty item list gives seven empty columns: no item in any column,
\* no placement, and a total item height of zero everywhere.
C25_EmptyListEmptyLayout ==
    (rendered /\ items = <<>>) =>
        \A d \in Columns :
            /\ items_by_day[d] = <<>>
            /\ placements[d] = <<>>
            /\ TotalItemHeight(d) = 0

\* C25's case: draw_calendar_items has run on the empty list.
C25_Witness ==
    /\ rendered /\ items = <<>>
    /\ DOMAIN placements = Columns

\* The number of turns of the bucketing loop for one item, from current_date.
RECURSIVE LoopTurns(_, _, _)
LoopTurns(item, current_date, week_start) ==
    IF LoopContinues(item, current_date, week_start)
    THEN 1 + LoopTurns(item, NextDate(current_date), week_start)
    ELSE 0

\* The days from the start date of the item to the last displayed date.
DaysToWeekEnd(it) ==
    IF Date(it.start) > WeekStartDate + 6 THEN 0
    ELSE WeekStartDate + 6 - Date(it.start) + 1

\* C30: the loop that buckets an item ends after at most one turn per day
\* from its start date to the last displayed date (no turn at all when the
\* end is before the start), and no column holds the item twice.
C30_BucketingTerminatesOncePerColumn ==
    rendered =>
        \A it \in InputItems :
            /\ LoopTurns(it, it.start, calculate_week_start) <= DaysToWeekEnd(it)
            /\ Instant(it.end, it.tz) < Instant(it.start, it.tz) =>
                    LoopTurns(it, it.start, calculate_week_start) = 0
            /\ \A d \in Columns :
                    TimesInColumn(it, d) <= 1 /\ TimesPainted(it, d) <= 1

\* C30's case: an item that starts before the displayed week and runs into
\* it is in the first two columns, once in each.
C30_Witness ==
    /\ rendered
    /\ \E it \in InputItems :
        /\ Date(it.start) < WeekStartDate
        /\ TimesInColumn(it, 0) = 1 /\ TimesInColumn(it, 1) = 1

-----------------------------------------------------------------------------
(* The week windows of one render.                                         *)

\* The week start dates the steps of the running render have computed so
\* far: the TickTick filter, the Google request, and the headers and columns
\* of the drawing (which read the clock in the same step).
WeekStartsUsed ==
    {Date(w.start) : w \in {tt_week[i] : i \in DOMAIN tt_week}
                            \cup {gc_week[i] : i \in DOMAIN gc_week}
                            \cup {header_week[i] : i \in DOMAIN header_week}}

\* C28: the steps of one render use one week start date (stated for a device
\* whose configured timezone is the system's, so that the timezones of C19
\* play no part).
C28_SingleWeekWindow ==
    (device_tz = sys_tz) => Cardinality(WeekStartsUsed) <= 1

-----------------------------------------------------------------------------
(* The retry of get_events after an authentication error.                  *)

\* The first calendar whose authentication error is not repaired (0: none).
FirstAuthFailed(runs) ==
    IF \E k \in DOMAIN runs : AuthFailed(runs[k])
    THEN CHOOSE k \in DOMAIN runs :
            AuthFailed(runs[k]) /\ \A j \in 1..(k - 1) : ~AuthFailed(runs[j])
    ELSE 0

\* C26: in one call of get_events a calendar is fetched once, and a second
\* time exactly when its first fetch met an authentication error and the
\* service was built again from the token file; never a third time.  When
\* the retry goes through the loop goes on to the next calendar and the
\* events are returned; when building the service or the retry fails the
\* call raises at that calendar, with no cached service left in the first
\* case.
C26_AuthErrorRetriedOnce ==
    (GoogleCalled /\ provider.init_ok) =>
        LET runs == provider.runs
            stop == FirstAuthFailed(runs)
        IN  /\ \A k \in DOMAIN fetches :
                /\ fetches[k] \in {1, 2}
                /\ fetches[k] = 2 <=>
                        (runs[k].first = "auth_error" /\ runs[k].reinit_ok)
            /\ IF stop = 0
               THEN /\ events_status = "ok"
                    /\ Len(fetches) = Len(runs)
                    /\ events = Contributions(runs, 1)
               ELSE /\ events_status = "failed"
                    /\ Len(fetches) = stop
                    /\ ~runs[stop].reinit_ok => ~service

\* C26's case: the first calendar met an authentication error, was fetched
\* a second time with success, and the second calendar was fetched after it.
C26_Witness ==
    /\ GoogleCalled /\ provider.init_ok
    /\ provider.runs[1].first = "auth_error"
    /\ provider.runs[1].payload = <<EventE1>>
    /\ fetches = <<2, 1>>
    /\ events_status = "ok"
    /\ format_event(EventE1, CalendarNames[1]) \in {events[i] : i \in DOMAIN events}

-----------------------------------------------------------------------------
(* The filter window and the displayed window.                             *)

PluginCalled == provider.source = "plugin" /\ tasks_status # "pending"

\* The titles and starts of the tasks an adapter returned.
KeptStarts == {<<tasks[i].title, Instant(tasks[i].start, tasks[i].tz)>> : i \in DOMAIN tasks}

\* The provider tasks whose start date, in the zone tz, is one of the seven
\* dates from week_start on.
StartsOnDisplayedDate(t, tz, week_start) ==
    /\ TaskWellFormed(t)
    /\ InGrid(Date(AsTimezone(ParseInstant(FirstDate(t.startDate, t.dueDate)), tz))
                - Date(week_start))

\* C29: whatever the weekday, a provider task that starts on one of the seven
\* displayed dates passes the week filter: in the two plugins, which filter
\* and display in the system timezone, and in the task_calendar service
\* (stated for a device whose configured timezone is the system's).
C29_FilterContainsDisplayedWeek ==
    /\ PluginCalled =>
            \A i \in DOMAIN provider.tasks :
                LET t == provider.tasks[i]
                IN  StartsOnDisplayedDate(t, sys_tz, header_week[1].start) =>
                        <<t.title[1], ParseInstant(FirstDate(t.startDate, t.dueDate))>>
                            \in KeptStarts
    /\ (TickTickCalled /\ tasks_status = "ok" /\ device_tz = sys_tz) =>
            \A i \in DOMAIN provider.tasks :
                LET t == provider.tasks[i]
                IN  StartsOnDisplayedDate(t, sys_tz, calculate_week_start) =>
                        <<t.title[1], ParseInstant(FirstDate(t.startDate, t.dueDate))>>
                            \in KeptStarts

-----------------------------------------------------------------------------
(* auth/google_auth.py: GoogleCalendarAuth                                 *)

\* The token file: absent; not JSON, or JSON without one of the keys
\* ("corrupt": load_tokens catches JSONDecodeError and KeyError); JSON that
\* is not an object, or a file that cannot be opened ("unreadable": the
\* TypeError or OSError is not caught); or what save_tokens wrote.  An access
\* token is known by the instant Google stops accepting it (token_expiry),
\* which save_tokens does not write; refresh_token: the file holds one.
NoFile == [kind |-> "missing"]
CorruptFile == [kind |-> "corrupt"]
UnreadableFile == [kind |-> "unreadable"]
TokenFile(token_expiry, refresh_token) ==
    [kind |-> "tokens", token_expiry |-> token_expiry,
     refresh_token |-> refresh_token]

\* google.oauth2.credentials.Credentials: expiry is None (<<>>) unless it is
\* given or the credential has been refreshed.
Credentials(token_expiry, refresh_token, expiry) ==
    [token_expiry |-> token_expiry, refresh_token |-> refresh_token,
     expiry |-> expiry]

\* load_tokens: None (<<>>) without a readable token file, else
\* Credentials(token=..., refresh_token=..., ...): no expiry is passed.
load_tokens(file) ==
    IF file.kind = "unreadable" THEN [raised |-> TRUE, credentials |-> <<>>]
    ELSE IF file.kind # "tokens" THEN [raised |-> FALSE, credentials |-> <<>>]
    ELSE [raised |-> FALSE,
          credentials |-> <<Credentials(file.token_expiry, file.refresh_token, <<>>)>>]

\* credentials.expired: False when expiry is None.
expired(c) == c.expiry # <<>> /\ c.expiry[1] <= now

\* The lifetime of an access token, in minutes.
TokenLifetime == 1 * 60

\* refresh_access_token: None without a refresh token; else
\* credentials.refresh(Request()), save_tokens and the credential, or None
\* when the refresh raises.  refresh_ok: Google accepts the refresh token.
refresh_access_token(c, file, refresh_ok) ==
    IF ~c.refresh_token
    THEN [credentials |-> <<>>, refreshes |-> 0, file |-> file]
    ELSE IF ~refresh_ok
    THEN [credentials |-> <<>>, refreshes |-> 1, file |-> file]
    ELSE [credentials |-> <<Credentials(now + TokenLifetime, TRUE,
                                        <<now + TokenLifetime>>)>>,
          refreshes |-> 1,
          file |-> TokenFile(now + TokenLifetime, TRUE)]

\* get_valid_credentials.  The second operand of its test,
\* (credentials.expiry.timestamp() - 300) < os.time(), raises AttributeError
\* when it is evaluated (the os module has no time): that is when the
\* credential is not expired and has an expiry.
get_valid_credentials(file, refresh_ok) ==
    LET loaded == load_tokens(file)
    IN  IF loaded.raised
        THEN [raised |-> TRUE, credentials |-> <<>>, refreshes |-> 0, file |-> file]
        ELSE IF loaded.credentials = <<>>
        THEN [raised |-> FALSE, credentials |-> <<>>, refreshes |-> 0, file |-> file]
        ELSE LET c == loaded.credentials[1]
             IN  IF expired(c)
                 THEN LET r == refresh_access_token(c, file, refresh_ok)
                      IN  [raised |-> FALSE, credentials |-> r.credentials,
                           refreshes |-> r.refreshes, file |-> r.file]
                 ELSE IF c.expiry # <<>>
                 THEN [raised |-> TRUE, credentials |-> <<>>, refreshes |-> 0,
                       file |-> file]
                 ELSE [raised |-> FALSE, credentials |-> <<c>>, refreshes |-> 0,
                       file |-> file]

\* What Google answers to a refresh, beside the token file the call finds.
OAuthAnswer(refresh_ok, file) ==
    [source |-> "oauth", refresh_ok |-> refresh_ok, file |-> file]

\* The minutes, from now, at which the stored access token expires: an hour
\* ago, in three minutes, in an hour.
ExpiryOffsets == {-60, 3, 60}

\* The token files get_valid_credentials can find at the instant t.
TokenFilesAt(t) ==
    {NoFile, CorruptFile, UnreadableFile}
        \cup {TokenFile(t + d, r) : d \in ExpiryOffsets, r \in BOOLEAN}

InitAuth ==
    /\ now \in Nows
    /\ sys_tz = 0
    /\ provider \in {OAuthAnswer(ok, f) : ok \in BOOLEAN, f \in TokenFilesAt(now)}
    /\ items = <<>>
    /\ day_width = DefaultDayWidth
    /\ task_font = TRUE
    /\ LayoutIdle
    /\ ImageIdle
    /\ token_file = provider.file
    /\ credential = <<>>
    /\ refreshes = 0
    /\ auth_status = "pending"
    /\ calls = 0

\* GoogleCalendarAuth(...).get_valid_credentials()
GetValidCredentials ==
    /\ provider.source = "oauth"
    /\ auth_status = "pending"
    /\ LET got == get_valid_credentials(token_file, provider.refresh_ok)
       IN  /\ credential' = got.credentials
           /\ refreshes' = got.refreshes
           /\ token_file' = got.file
           /\ auth_status' = IF got.raised THEN "raised" ELSE "returned"
    /\ UNCHANGED <<now, sys_tz, provider, layout_vars, image_vars, calls>>

NextAuth == GetValidCredentials

SpecAuth == InitAuth /\ [][NextAuth]_vars

\* The stored access token is expired, or expires within 5 minutes.
StoredTokenNearExpiry ==
    provider.file.kind = "tokens" /\ provider.file.token_expiry - 5 < now

\* C21: get_valid_credentials does not raise; the credential it returns, if
\* any, is not expired when it returns; and when the stored token is expired
\* or within 5 minutes of expiry exactly one refresh is attempted, after
\* which the refreshed credential is in the token file and returned, or None
\* is returned.
C21_ValidOrNone ==
    (provider.source = "oauth" /\ auth_status # "pending") =>
        /\ auth_status = "returned"
        /\ credential # <<>> => credential[1].token_expiry > now
        /\ StoredTokenNearExpiry =>
            /\ refreshes = 1
            /\ IF provider.refresh_ok
               THEN /\ credential # <<>>
                    /\ token_file = TokenFile(credential[1].token_expiry, TRUE)
               ELSE credential = <<>>

-----------------------------------------------------------------------------
(* A GoogleCalendar instance that lives across several get_events calls.   *)

MaxCalls == 3       \* get_events calls counted after a token is written

\* What the provider does with this instance: stale_error is how a fetch
\* made with a credential Google no longer accepts fails ("auth_error": the
\* message holds 'invalid_grant' or 'Token has been expired or revoked';
\* "error": any other message); payload is what every calendar holds.
ServiceAnswer(stale_error, payload) ==
    [source |-> "service", stale_error |-> stale_error, payload |-> payload,
     refresh_ok |-> FALSE]

\* Google accepts the credential at the current instant.
Accepted(c) == c.token_expiry > now

\* What one call of get_events meets, given the cached credential (held)
\* and the token file: _initialize_service finds a credential or not; every
\* fetch made with an accepted credential goes through; after an
\* authentication error the credential of the token file is used, for the
\* retry and for the calendars after it.
ServiceRuns ==
    LET disk == get_valid_credentials(token_file, provider.refresh_ok)
        disk_ok == ~disk.raised /\ disk.credentials # <<>>
        held == IF service THEN credential ELSE disk.credentials
        held_ok == held # <<>> /\ Accepted(held[1])
        disk_accepted == disk_ok /\ Accepted(disk.credentials[1])
        first == IF held_ok THEN "ok" ELSE provider.stale_error
    IN  [init_ok |-> disk_ok,
         reloaded |-> service /\ ~held_ok /\ provider.stale_error = "auth_error",
         disk |-> IF disk_ok THEN disk.credentials ELSE <<>>,
         runs |-> [k \in DOMAIN CalendarNames |->
                    CalendarRun(IF k > 1 /\ first = "auth_error" /\ disk_accepted
                                THEN "ok" ELSE first,
                                disk_ok, disk_accepted, provider.payload)]]

InitService ==
    /\ now \in Nows
    /\ sys_tz = 0
    /\ provider \in {ServiceAnswer(e, p) :
                        e \in {"auth_error", "error"},
                        p \in {<<EventE1>>, <<EventE1, EventE2>>}}
    /\ items = <<>>
    /\ day_width = DefaultDayWidth
    /\ task_font = TRUE
    /\ LayoutIdle
    /\ ImageIdle
    /\ token_file \in {NoFile, TokenFile(now + TokenLifetime, TRUE)}
    /\ credential = <<>>
    /\ refreshes = 0
    /\ auth_status = "pending"
    /\ calls = 0

\* One call of get_events on the instance.
CallGetEvents ==
    /\ provider.source = "service"
    /\ calls < MaxCalls
    /\ LET met == ServiceRuns
           got == get_events(GoogleAnswer(met.init_ok, met.runs), service)
       IN  /\ events' = got.events
           /\ events_status' = IF got.failed THEN "failed" ELSE "ok"
           /\ gc_week' = got.week
           /\ fetches' = got.fetches
           /\ service' = got.service
           /\ credential' = IF ~service \/ met.reloaded THEN met.disk ELSE credential
    /\ calls' = calls + 1
    /\ UNCHANGED <<now, sys_tz, provider, layout_vars, device_tz, pc, tasks,
                   tasks_status, tt_week, header_week, raised, image, saved,
                   ticks, token_file, refreshes, auth_status>>

\* Time passes: the access tokens issued so far are no longer accepted.
TokensExpire ==
    /\ provider.source = "service"
    /\ ticks < MaxTicks
    /\ ticks' = ticks + 1
    /\ now' = now + TickMinutes
    /\ UNCHANGED <<sys_tz, provider, layout_vars, device_tz, pc, tasks, events,
                   tasks_status, events_status, tt_week, gc_week, header_week,
                   service, raised, image, saved, fetches, auth_vars>>

\* The user runs the authentication script: exchange_code_for_tokens and
\* save_tokens write a new token to the token file.
WriteToken ==
    /\ provider.source = "service"
    /\ token_file.kind = "tokens" => token_file.token_expiry <= now
    /\ token_file' = TokenFile(now + TokenLifetime, TRUE)
    /\ calls' = 0
    /\ UNCHANGED <<now, sys_tz, provider, layout_vars, image_vars, credential,
                   refreshes, auth_status>>

NextService == CallGetEvents \/ TokensExpire \/ WriteToken

SpecService == InitService /\ [][NextService]_vars

\* The token file holds a token Google accepts.
ValidTokenOnDisk == token_file.kind = "tokens" /\ token_file.token_expiry > now

\* The events of all calendars.
RECURSIVE AllCalendarsEvents(_)
AllCalendarsEvents(k) ==
    IF k > Len(CalendarNames) THEN <<>>
    ELSE FormatAll(provider.payload, CalendarNames[k]) \o AllCalendarsEvents(k + 1)

\* C27: once a valid token is in the token file, the instance returns the
\* events of the calendars at the second get_events call after that at the
\* latest, whatever it held before and however the stale credential failed.
C27_RecoversAfterNewToken ==
    (provider.source = "service" /\ ValidTokenOnDisk /\ calls >= 2) =>
        /\ events_status = "ok"
        /\ events = AllCalendarsEvents(1)

====
